---------------------------- MODULE Spec2Model ----------------------------
(***************************************************************************)
(* The reactor core of sphinxd (src/sphinxd/src/reactor.cpp): the N x N    *)
(* mailbox fabric with its sleep/wake handshake, and the socket handles.   *)
(*                                                                         *)
(* Every worker thread owns one Reactor.  A worker is modelled by its      *)
(* program counter pc[self]; each atomic access to shared memory (a queue  *)
(* operation, a load or store of a sleep-flag, a pthread_kill) is one      *)
(* step.  The event loop run() and the SPSC queue live in files that are   *)
(* not part of src/ (reactor-epoll.cpp, spsc.h); they are modelled from    *)
(* the specification, sections 4.2 and 4.6.                                *)
(***************************************************************************)
EXTENDS Integers, Sequences, FiniteSets, TLC

\* Size of the process-wide tables (Reactor::max_nr_threads), the largest
\* number of workers a configuration starts.
MaxThreads == 3
\* Capacity K of one mailbox cell (Reactor::_msg_queue_size).
MsgQueueSize == 2
\* Number of send_msg calls to a peer in a run of two workers.
PairSends == 4
\* Number of send_msg calls to a peer in a run of MaxThreads workers.
FullSends == 2
\* Number of counted send_msg calls beside those of a worker that never stops sending.
FloodSends == 1

\* Number of socket handles a run creates.
MaxHandles == 1
\* Largest number of shared references to one handle held at a time.
MaxRefs == 3
\* Number of bytes of the receive buffer (stands for rx_buf_size, 256 KiB).
RxBufSize == 2
\* Largest len a send call is given.
MaxSendLen == 2
\* Largest number of candidate addresses a lookup resolves.
MaxCandidates == 3

Slots == 0 .. (MaxThreads - 1)
Handles == 1 .. MaxHandles

VARIABLES
  \* ---- every Reactor's nr_threads (reactor.cpp:281)
  nr_threads,
  \* ---- process-wide tables (reactor.cpp:264-266) and signal state
  msg_queues,          \* msg_queues[recipient][sender]: the cell's contents, oldest first
  thread_is_sleeping,  \* the sleep-flag of each worker
  pthread_ids,         \* the thread identity published for each worker (NoThread: none yet)
  sigpending,          \* SIGUSR1 sent to the worker's thread and not yet taken by wait()
  \* ---- per worker: position and locals
  pc,                  \* where the worker is
  other,               \* loop variable of has_messages / poll_messages
  remote,              \* remote_id of the send_msg call in progress (else the own id)
  msg,                 \* msg of the send_msg call in progress
  has_msgs,            \* local has_messages of poll_messages
  ret,                 \* what the call that returned in the worker's last step returned
  \* ---- the callbacks' behaviour
  sends,               \* how many send_msg calls to a peer the callbacks make in all
  flooder,             \* the worker whose callbacks never stop sending (none: MaxThreads)
  flood_to,            \* the peer the flooder's callbacks send to
  watch,               \* whether the observers of the sleep cycles record
  \* ---- observers (kept beside the program, read by the properties only)
  pending,             \* pending[c][p]: pointers p enqueued for c, not yet given to on_message
  in_order,            \* every on_message so far got the oldest pending pointer of its cell
  nsent,               \* number of counted send_msg calls made so far
  poll_delivered,      \* the poll_messages call in progress has invoked on_message
  enq_during,          \* a peer enqueued to this worker during its poll_messages call
  wakes,               \* wake signals sent to the worker since it last stored true to its flag
  sent_in_window,      \* a send_msg to the worker returned true between its store of true
                       \* and the start of the re-check that is in progress
  \* ---- the socket handles of one worker
  handles,             \* per handle: its variant, its shared references, close() calls on its descriptor
  errno,               \* the worker thread's errno
  last,                \* the last on_read_event call: what recv gave, what the call did
  sent,                \* the last send call: what the write gave, what the call did
  \* ---- a call of a socket factory
  factory              \* which factory, its position and locals, the open descriptors it created

logs == <<pending, in_order, nsent, poll_delivered, enq_during, wakes, sent_in_window>>
config == <<nr_threads, pthread_ids, sends, flooder, flood_to, watch>>
sockets == <<handles, errno, last, sent>>
reactors == <<nr_threads, msg_queues, thread_is_sleeping, pthread_ids, sigpending, pc, other, remote, msg,
              has_msgs, ret, sends, flooder, flood_to, watch, pending, in_order, nsent,
              poll_delivered, enq_during, wakes, sent_in_window>>
vars == <<reactors, sockets, factory>>

Workers == 0 .. (nr_threads - 1)
NoMsg == 0
\* A zero-initialised slot of the static _pthread_ids, and pthread_self() of worker i.
NoThread == 0
pthread_self(i) == i + 1
\* A returned (or raised) value, with the function that returned it.
Ret(fn, v) == <<fn, v>>
NoRet == <<"none", "none">>

-----------------------------------------------------------------------------
(* The SPSC queue (sphinx::spsc::Queue, section 4.6): a bounded FIFO ring. *)

\* try_to_emplace fails iff the ring already holds its capacity.
QueueFull(q) == Len(q) >= MsgQueueSize
try_to_emplace(q, m) == Append(q, m)
\* front() returns nullptr on an empty ring, else the oldest slot.
front(q) == IF q = <<>> THEN NoMsg ELSE Head(q)
pop(q) == Tail(q)

-----------------------------------------------------------------------------
\* The state after every worker's Reactor is constructed (reactor.cpp:279-300)
\* and before any worker has entered run().
Constructed ==
  /\ msg_queues = [r \in Slots |-> [s \in Slots |-> <<>>]]
  /\ thread_is_sleeping = [i \in Slots |-> FALSE]
  /\ pthread_ids = [i \in Slots |-> pthread_self(i)]
  /\ sigpending = [i \in Slots |-> FALSE]
  /\ pc = [i \in Slots |-> "poll"]
  /\ other = [i \in Slots |-> 0]
  /\ remote = [i \in Slots |-> i]
  /\ msg = [i \in Slots |-> NoMsg]
  /\ has_msgs = [i \in Slots |-> FALSE]
  /\ ret = [i \in Slots |-> NoRet]
  /\ pending = [r \in Slots |-> [s \in Slots |-> <<>>]]
  /\ in_order = TRUE
  /\ nsent = 0
  /\ poll_delivered = [i \in Slots |-> FALSE]
  /\ enq_during = [i \in Slots |-> FALSE]
  /\ wakes = [i \in Slots |-> 0]
  /\ sent_in_window = [i \in Slots |-> FALSE]

\* A slot of the handle table no factory has filled yet.
NoHandle == [kind |-> "none", refs |-> 0, closes |-> 0]
\* No on_read_event call has been made yet.
NoCall == [h |-> 0, nr |-> 0, errno |-> "none", rx_buf |-> <<>>, recv_fn |-> <<>>,
           raised |-> NoRet, kept |-> FALSE]

\* No send call has been made yet.
NoSend == [h |-> 0, kind |-> "none", len |-> 0, nr |-> 0, errno |-> "none", raised |-> NoRet]

\* No socket has been created.
NoSockets ==
  /\ handles = [h \in Handles |-> NoHandle]
  /\ errno = "none"
  /\ last = NoCall
  /\ sent = NoSend

\* No factory has been called.
NoFactory == [kind |-> "none", pc |-> "done", n |-> 0, rp |-> 0, sockfd |-> -1,
              open_fds |-> {}, tried |-> <<>>, result |-> NoRet]

\* Two workers, or all MaxThreads; the callbacks make a bounded number of sends.
Init ==
  /\ Constructed
  /\ NoSockets
  /\ factory = NoFactory
  /\ \/ nr_threads = 2 /\ sends = PairSends
     \/ nr_threads = MaxThreads /\ sends = FullSends
  /\ flooder = MaxThreads
  /\ flood_to = MaxThreads
  /\ watch = FALSE

-----------------------------------------------------------------------------
(* The event loop run() (section 4.2): where each call of the loop         *)
(* continues, given what the call returned.                                *)

\* Step 1: a poll that delivered skips to step 4; else step 2 calls has_messages.
AfterPoll(r) == IF r THEN "clear" ELSE "hm1"
\* Step 2: a message arrived after the drain: back to step 1; else step 3.
AfterCheck(r) == IF r THEN "poll" ELSE "set_sleep"
\* Step 3: the re-check saw a message: clear the flag and loop; else block in wait().
AfterRecheck(r) == IF r THEN "unset_sleep" ELSE "wait"
\* send_msg was called from a callback of step 4; the loop goes on with step 1.
AfterSend == "poll"

Bool(b) == IF b THEN "true" ELSE "false"

\* ret[self] holds what a call returned only in the state right after its return:
\* the worker's next step uses it up.
NoReturn(self) == ret' = [ret EXCEPT ![self] = NoRet]

-----------------------------------------------------------------------------
(* Reactor::send_msg and Reactor::wake_up (reactor.cpp:318-339).  The      *)
(* operators below are the steps of the code on the program's state; the   *)
(* actions further down add what the observers record.                     *)

InPoll(i) == pc[i] \in {"poll", "poll_pop"}

\* The call returns (or raises) `r`: its arguments go out of scope.
send_msg_return(self, r) ==
  /\ ret' = [ret EXCEPT ![self] = Ret("send_msg", r)]
  /\ pc' = [pc EXCEPT ![self] = AfterSend]
  /\ remote' = [remote EXCEPT ![self] = self]
  /\ msg' = [msg EXCEPT ![self] = NoMsg]

\* send_msg_check without the comparison with the own id.
send_msg_check_missing(self) ==
  /\ pc[self] = "send_msg"
  /\ pc' = [pc EXCEPT ![self] = "send_emplace"]
  /\ NoReturn(self)
  /\ UNCHANGED <<remote, msg, msg_queues, thread_is_sleeping, sigpending, other, has_msgs>>

\* `if (remote_id == _thread_id) throw std::invalid_argument(...)`.
send_msg_check(self) ==
  /\ pc[self] = "send_msg"
  /\ IF remote[self] = self
       THEN send_msg_return(self, "InvalidArgument")
       ELSE /\ pc' = [pc EXCEPT ![self] = "send_emplace"]
            /\ NoReturn(self)
            /\ UNCHANGED <<remote, msg>>
  /\ UNCHANGED <<msg_queues, thread_is_sleeping, sigpending, other, has_msgs>>

\* send_msg_emplace on cell [_thread_id][remote_id], the indices exchanged.
send_msg_emplace_swapped(self) ==
  /\ pc[self] = "send_emplace"
  /\ LET r == remote[self] IN
     IF QueueFull(msg_queues[self][r])
       THEN /\ send_msg_return(self, "false")
            /\ UNCHANGED msg_queues
       ELSE /\ msg_queues' = [msg_queues EXCEPT ![self][r] = try_to_emplace(@, msg[self])]
            /\ pc' = [pc EXCEPT ![self] = "send_load"]
            /\ UNCHANGED <<remote, msg>>
            /\ NoReturn(self)
  /\ UNCHANGED <<thread_is_sleeping, sigpending, other, has_msgs>>

\* send_msg_emplace that does not look at what try_to_emplace returned.
send_msg_emplace_unchecked(self) ==
  /\ pc[self] = "send_emplace"
  /\ LET r == remote[self] IN
     IF QueueFull(msg_queues[r][self])
       THEN UNCHANGED msg_queues
       ELSE msg_queues' = [msg_queues EXCEPT ![r][self] = try_to_emplace(@, msg[self])]
  /\ pc' = [pc EXCEPT ![self] = "send_load"]
  /\ NoReturn(self)
  /\ UNCHANGED <<remote, msg, thread_is_sleeping, sigpending, other, has_msgs>>

\* send_msg_emplace that clears the recipient's sleep-flag before it tries to enqueue.
send_msg_emplace_clears(self) ==
  /\ pc[self] = "send_emplace"
  /\ LET r == remote[self] IN
     /\ thread_is_sleeping' = [thread_is_sleeping EXCEPT ![r] = FALSE]
     /\ IF QueueFull(msg_queues[r][self])
          THEN /\ send_msg_return(self, "false")
               /\ UNCHANGED msg_queues
          ELSE /\ msg_queues' = [msg_queues EXCEPT ![r][self] = try_to_emplace(@, msg[self])]
               /\ pc' = [pc EXCEPT ![self] = "send_load"]
               /\ NoReturn(self)
               /\ UNCHANGED <<remote, msg>>
  /\ UNCHANGED <<sigpending, other, has_msgs>>

\* `if (!queue.try_to_emplace(msg)) return false;` on cell [remote_id][_thread_id].
send_msg_emplace(self) ==
  /\ pc[self] = "send_emplace"
  /\ LET r == remote[self] IN
     IF QueueFull(msg_queues[r][self])
       THEN /\ send_msg_return(self, "false")
            /\ UNCHANGED msg_queues
       ELSE /\ msg_queues' = [msg_queues EXCEPT ![r][self] = try_to_emplace(@, msg[self])]
            /\ pc' = [pc EXCEPT ![self] = "send_load"]
            /\ UNCHANGED <<remote, msg>>
            /\ NoReturn(self)
  /\ UNCHANGED <<thread_is_sleeping, sigpending, other, has_msgs>>

\* send_msg_load that returns true without looking at the sleep-flag.
send_msg_load_skipped(self) ==
  /\ pc[self] = "send_load"
  /\ send_msg_return(self, "true")
  /\ UNCHANGED <<msg_queues, thread_is_sleeping, sigpending, other, has_msgs>>

\* `if (_thread_is_sleeping[remote_id].load(seq_cst))`, else `return true`.
send_msg_load(self) ==
  /\ pc[self] = "send_load"
  /\ IF thread_is_sleeping[remote[self]]
       THEN /\ pc' = [pc EXCEPT ![self] = "send_store"]
            /\ UNCHANGED <<remote, msg>>
            /\ NoReturn(self)
       ELSE send_msg_return(self, "true")
  /\ UNCHANGED <<msg_queues, thread_is_sleeping, sigpending, other, has_msgs>>

\* send_msg_store that stores true.
send_msg_store_true(self) ==
  /\ pc[self] = "send_store"
  /\ thread_is_sleeping' = [thread_is_sleeping EXCEPT ![remote[self]] = TRUE]
  /\ pc' = [pc EXCEPT ![self] = "send_kill"]
  /\ UNCHANGED <<msg_queues, sigpending, other, remote, msg, has_msgs>>
  /\ NoReturn(self)

\* `_thread_is_sleeping[remote_id].store(false, seq_cst);`
send_msg_store(self) ==
  /\ pc[self] = "send_store"
  /\ thread_is_sleeping' = [thread_is_sleeping EXCEPT ![remote[self]] = FALSE]
  /\ pc' = [pc EXCEPT ![self] = "send_kill"]
  /\ UNCHANGED <<msg_queues, sigpending, other, remote, msg, has_msgs>>
  /\ NoReturn(self)

\* pthread_kill(id, SIGUSR1): the signal becomes pending for the thread with that
\* identity; with an identity that is no thread's, for any threads or none.
pthread_kill(id) ==
  IF id # NoThread
    THEN sigpending' = [t \in Slots |-> sigpending[t] \/ pthread_self(t) = id]
    ELSE \E hit \in SUBSET Workers : sigpending' = [t \in Slots |-> sigpending[t] \/ t \in hit]

\* wake_up that signals the calling thread (`_pthread_ids[_thread_id]`).
wake_up_self(self) ==
  /\ pc[self] = "send_kill"
  /\ pthread_kill(pthread_ids[self])
  /\ send_msg_return(self, "true")
  /\ UNCHANGED <<msg_queues, thread_is_sleeping, other, has_msgs>>

\* `wake_up(remote_id)`: pthread_kill(_pthread_ids[thread_id], SIGUSR1); `return true`.
wake_up(self) ==
  /\ pc[self] = "send_kill"
  /\ pthread_kill(pthread_ids[remote[self]])
  /\ send_msg_return(self, "true")
  /\ UNCHANGED <<msg_queues, thread_is_sleeping, other, has_msgs>>

-----------------------------------------------------------------------------
(* The loop header shared by has_messages and poll_messages:               *)
(* `for (other = 0; other < _nr_threads; other++) if (other == _thread_id) continue;` *)

\* The index the iteration that starts at k inspects: the own index is skipped.
SkipSelf(self, k) == IF k = self THEN k + 1 ELSE k
\* No index is left to inspect from k on.
ScanDone(self, k) == SkipSelf(self, k) >= nr_threads

-----------------------------------------------------------------------------
(* Reactor::has_messages (reactor.cpp:341-358): one inspected cell a step. *)
(* `at` is the position of the call, onTrue/onFalse where the caller goes  *)
(* on with the result.                                                     *)

\* has_messages that takes the message it finds out of the cell.
has_messages_consuming(self, at, onTrue, onFalse) ==
  /\ pc[self] = at
  /\ LET k == SkipSelf(self, other[self]) IN
     IF k < nr_threads /\ front(msg_queues[self][k]) # NoMsg
       THEN /\ ret' = [ret EXCEPT ![self] = Ret("has_messages", "true")]
            /\ pc' = [pc EXCEPT ![self] = onTrue]
            /\ other' = [other EXCEPT ![self] = 0]
            /\ msg_queues' = [msg_queues EXCEPT ![self][k] = pop(@)]
       ELSE /\ UNCHANGED msg_queues
            /\ IF ScanDone(self, k + 1)
                 THEN /\ ret' = [ret EXCEPT ![self] = Ret("has_messages", "false")]
                      /\ pc' = [pc EXCEPT ![self] = onFalse]
                      /\ other' = [other EXCEPT ![self] = 0]
                 ELSE /\ other' = [other EXCEPT ![self] = k + 1]
                      /\ NoReturn(self)
                      /\ UNCHANGED pc
  /\ UNCHANGED <<thread_is_sleeping, sigpending, remote, msg, has_msgs>>

\* has_messages that inspects the cell it found empty again (no `other++`).
has_messages_stuck(self, at, onTrue, onFalse) ==
  /\ pc[self] = at
  /\ LET k == SkipSelf(self, other[self]) IN
     IF k < nr_threads /\ front(msg_queues[self][k]) # NoMsg
       THEN /\ ret' = [ret EXCEPT ![self] = Ret("has_messages", "true")]
            /\ pc' = [pc EXCEPT ![self] = onTrue]
            /\ other' = [other EXCEPT ![self] = 0]
       ELSE /\ other' = [other EXCEPT ![self] = k]
            /\ UNCHANGED pc
            /\ NoReturn(self)
  /\ UNCHANGED <<msg_queues, thread_is_sleeping, sigpending, remote, msg, has_msgs>>

\* has_messages whose scan starts at peer 1 (`other = 1`).
has_messages_skips_first(self, at, onTrue, onFalse) ==
  /\ pc[self] = at
  /\ LET k == SkipSelf(self, IF other[self] = 0 THEN 1 ELSE other[self]) IN
     IF k < nr_threads /\ front(msg_queues[self][k]) # NoMsg
       THEN /\ ret' = [ret EXCEPT ![self] = Ret("has_messages", "true")]
            /\ pc' = [pc EXCEPT ![self] = onTrue]
            /\ other' = [other EXCEPT ![self] = 0]
       ELSE IF ScanDone(self, k + 1)
         THEN /\ ret' = [ret EXCEPT ![self] = Ret("has_messages", "false")]
              /\ pc' = [pc EXCEPT ![self] = onFalse]
              /\ other' = [other EXCEPT ![self] = 0]
         ELSE /\ other' = [other EXCEPT ![self] = k + 1]
              /\ UNCHANGED pc
              /\ NoReturn(self)
  /\ UNCHANGED <<msg_queues, thread_is_sleeping, sigpending, remote, msg, has_msgs>>

has_messages(self, at, onTrue, onFalse) ==
  /\ pc[self] = at
  /\ LET k == SkipSelf(self, other[self]) IN
     IF k < nr_threads /\ front(msg_queues[self][k]) # NoMsg
       THEN \* `return true`
            /\ ret' = [ret EXCEPT ![self] = Ret("has_messages", "true")]
            /\ pc' = [pc EXCEPT ![self] = onTrue]
            /\ other' = [other EXCEPT ![self] = 0]
       ELSE IF ScanDone(self, k + 1)
         THEN \* `break`, the for loop ends: `return false`
              /\ ret' = [ret EXCEPT ![self] = Ret("has_messages", "false")]
              /\ pc' = [pc EXCEPT ![self] = onFalse]
              /\ other' = [other EXCEPT ![self] = 0]
         ELSE \* `break`, next peer
              /\ other' = [other EXCEPT ![self] = k + 1]
              /\ UNCHANGED pc
              /\ NoReturn(self)
  /\ UNCHANGED <<msg_queues, thread_is_sleeping, sigpending, remote, msg, has_msgs>>

-----------------------------------------------------------------------------
(* Reactor::poll_messages (reactor.cpp:360-380).                           *)

\* poll_messages_front without `has_messages |= true`.
poll_messages_front_forgets(self) ==
  /\ pc[self] = "poll"
  /\ LET k == SkipSelf(self, other[self]) IN
     IF k < nr_threads /\ front(msg_queues[self][k]) # NoMsg
       THEN /\ other' = [other EXCEPT ![self] = k]
            /\ pc' = [pc EXCEPT ![self] = "poll_pop"]
            /\ UNCHANGED has_msgs
            /\ NoReturn(self)
       ELSE IF ScanDone(self, k + 1)
         THEN /\ ret' = [ret EXCEPT ![self] = Ret("poll_messages", Bool(has_msgs[self]))]
              /\ pc' = [pc EXCEPT ![self] = AfterPoll(has_msgs[self])]
              /\ other' = [other EXCEPT ![self] = 0]
              /\ has_msgs' = [has_msgs EXCEPT ![self] = FALSE]
         ELSE /\ other' = [other EXCEPT ![self] = k + 1]
              /\ UNCHANGED <<pc, has_msgs>>
              /\ NoReturn(self)
  /\ UNCHANGED <<msg_queues, thread_is_sleeping, sigpending, remote, msg>>

\* poll_messages_front that returns at the first empty cell (`return` for `break`).
poll_messages_front_returns(self) ==
  /\ pc[self] = "poll"
  /\ LET k == SkipSelf(self, other[self]) IN
     IF k < nr_threads /\ front(msg_queues[self][k]) # NoMsg
       THEN /\ has_msgs' = [has_msgs EXCEPT ![self] = TRUE]
            /\ other' = [other EXCEPT ![self] = k]
            /\ pc' = [pc EXCEPT ![self] = "poll_pop"]
            /\ NoReturn(self)
       ELSE /\ ret' = [ret EXCEPT ![self] = Ret("poll_messages", Bool(has_msgs[self]))]
            /\ pc' = [pc EXCEPT ![self] = AfterPoll(has_msgs[self])]
            /\ other' = [other EXCEPT ![self] = 0]
            /\ has_msgs' = [has_msgs EXCEPT ![self] = FALSE]
  /\ UNCHANGED <<msg_queues, thread_is_sleeping, sigpending, remote, msg>>

\* `auto* msg = queue.front(); if (!msg) break;` with the end of the for loop
\* (`return has_messages`), or `has_messages |= true; _on_message_fn(*msg);`.
poll_messages_front(self) ==
  /\ pc[self] = "poll"
  /\ LET k == SkipSelf(self, other[self]) IN
     IF k < nr_threads /\ front(msg_queues[self][k]) # NoMsg
       THEN /\ has_msgs' = [has_msgs EXCEPT ![self] = TRUE]
            /\ other' = [other EXCEPT ![self] = k]
            /\ pc' = [pc EXCEPT ![self] = "poll_pop"]
            /\ NoReturn(self)
       ELSE IF ScanDone(self, k + 1)
         THEN /\ ret' = [ret EXCEPT ![self] = Ret("poll_messages", Bool(has_msgs[self]))]
              /\ pc' = [pc EXCEPT ![self] = AfterPoll(has_msgs[self])]
              /\ other' = [other EXCEPT ![self] = 0]
              /\ has_msgs' = [has_msgs EXCEPT ![self] = FALSE]
         ELSE /\ other' = [other EXCEPT ![self] = k + 1]
              /\ UNCHANGED <<pc, has_msgs>>
              /\ NoReturn(self)
  /\ UNCHANGED <<msg_queues, thread_is_sleeping, sigpending, remote, msg>>

\* poll_messages_pop that leaves the message in the cell.
poll_messages_pop_missing(self) ==
  /\ pc[self] = "poll_pop"
  /\ pc' = [pc EXCEPT ![self] = "poll"]
  /\ NoReturn(self)
  /\ UNCHANGED <<msg_queues, thread_is_sleeping, sigpending, other, remote, msg, has_msgs>>

\* `queue.pop();` and the inner `for (;;)` goes round.
poll_messages_pop(self) ==
  /\ pc[self] = "poll_pop"
  /\ msg_queues' = [msg_queues EXCEPT ![self][other[self]] = pop(@)]
  /\ pc' = [pc EXCEPT ![self] = "poll"]
  /\ UNCHANGED <<thread_is_sleeping, sigpending, other, remote, msg, has_msgs>>
  /\ NoReturn(self)

-----------------------------------------------------------------------------
(* The event loop run() (section 4.2) and the backend's wait() with the    *)
(* signal discipline of section 5: SIGUSR1 is blocked by the constructor   *)
(* (reactor.cpp:294-297) and taken only inside wait().                     *)

\* Step 3: store true to the own sleep-flag; the re-check follows.
run_set_sleeping(self) ==
  /\ pc[self] = "set_sleep"
  /\ thread_is_sleeping' = [thread_is_sleeping EXCEPT ![self] = TRUE]
  /\ pc' = [pc EXCEPT ![self] = "hm2"]
  /\ UNCHANGED <<msg_queues, sigpending, other, remote, msg, has_msgs>>
  /\ NoReturn(self)

\* Step 3: the re-check saw a message: clear the sleep-flag and loop to step 1.
run_unset_sleeping(self) ==
  /\ pc[self] = "unset_sleep"
  /\ thread_is_sleeping' = [thread_is_sleeping EXCEPT ![self] = FALSE]
  /\ pc' = [pc EXCEPT ![self] = "poll"]
  /\ UNCHANGED <<msg_queues, sigpending, other, remote, msg, has_msgs>>
  /\ NoReturn(self)

\* wait() is interrupted (EINTR) by a pending wake signal, which it consumes.
wait_interrupted(self) ==
  /\ pc[self] = "wait"
  /\ sigpending[self]
  /\ sigpending' = [sigpending EXCEPT ![self] = FALSE]
  /\ pc' = [pc EXCEPT ![self] = "clear"]
  /\ UNCHANGED <<msg_queues, thread_is_sleeping, other, remote, msg, has_msgs>>
  /\ NoReturn(self)

\* wait() returns because the kernel reports a descriptor ready.
wait_ready(self) ==
  /\ pc[self] = "wait"
  /\ pc' = [pc EXCEPT ![self] = "clear"]
  /\ UNCHANGED <<msg_queues, thread_is_sleeping, sigpending, other, remote, msg, has_msgs>>
  /\ NoReturn(self)

\* Step 4: clear the own sleep-flag, then dispatch the ready descriptors.
run_clear_sleeping(self) ==
  /\ pc[self] = "clear"
  /\ thread_is_sleeping' = [thread_is_sleeping EXCEPT ![self] = FALSE]
  /\ pc' = [pc EXCEPT ![self] = "dispatch"]
  /\ UNCHANGED <<msg_queues, sigpending, other, remote, msg, has_msgs>>
  /\ NoReturn(self)

\* Step 4: a callback calls send_msg(r, m).
callback_send_msg(self, r, m) ==
  /\ pc[self] = "dispatch"
  /\ remote' = [remote EXCEPT ![self] = r]
  /\ msg' = [msg EXCEPT ![self] = m]
  /\ pc' = [pc EXCEPT ![self] = "send_msg"]
  /\ NoReturn(self)
  /\ UNCHANGED <<msg_queues, thread_is_sleeping, sigpending, other, has_msgs>>

\* Step 5: the callbacks called no send_msg; loop to step 1.
run_loop(self) ==
  /\ pc[self] = "dispatch"
  /\ pc' = [pc EXCEPT ![self] = "poll"]
  /\ NoReturn(self)
  /\ UNCHANGED <<msg_queues, thread_is_sleeping, sigpending, other, remote, msg, has_msgs>>

-----------------------------------------------------------------------------
(* The actions: the steps above, with what the observers record.           *)

\* A callback calls send_msg with a fresh pointer; the flooder's calls are not
\* counted, and with a flooder every callback sends to the flooder's recipient.
SendCall(self) ==
  \E r \in Workers :
    /\ (r # self /\ self # flooder) => nsent < sends
    /\ flooder \in Workers => r = flood_to
    /\ callback_send_msg(self, r, nsent + 1)
    /\ nsent' = IF r # self /\ self # flooder THEN nsent + 1 ELSE nsent
    /\ UNCHANGED <<pending, in_order, poll_delivered, enq_during, wakes, sent_in_window>>

SendCheck(self) == send_msg_check(self) /\ UNCHANGED logs

SendEmplace(self) ==
  /\ send_msg_emplace(self)
  /\ LET r == remote[self] IN
     IF msg_queues' # msg_queues
       THEN /\ pending' = [pending EXCEPT ![r][self] = Append(@, msg[self])]
            /\ enq_during' = [enq_during EXCEPT ![r] = @ \/ InPoll(r)]
       ELSE UNCHANGED <<pending, enq_during>>
  /\ UNCHANGED <<in_order, nsent, poll_delivered, wakes, sent_in_window>>

\* Worker c has stored true to its sleep-flag and has not begun the re-check.
InWindow(c) == pc[c] = "hm2" /\ other[c] = 0
\* The step is the return of true by self's send_msg.
SendReturnsTrue(self) == pc[self] \in {"send_load", "send_kill"} /\ pc'[self] = AfterSend
\* The pointer of self's send_msg call is in the cell it was enqueued into.
StillInCell(self) ==
  \E k \in 1 .. Len(msg_queues[remote[self]][self]) :
    msg_queues[remote[self]][self][k] = msg[self]
\* The step completes a send_msg of self to c in c's window, the pointer not yet taken.
CompletesInWindow(self, c) ==
  /\ self # c /\ remote[self] = c
  /\ SendReturnsTrue(self)
  /\ InWindow(c)
  /\ StillInCell(self)
\* What the observers record of a step of send_msg after the enqueue.
ObserveSend(self) ==
  /\ sent_in_window' = [sent_in_window EXCEPT ![remote[self]] =
                          @ \/ (watch /\ CompletesInWindow(self, remote[self]))]
  /\ wakes' = [wakes EXCEPT ![remote[self]] =
                 IF watch /\ pc[self] = "send_kill" THEN @ + 1 ELSE @]
  /\ UNCHANGED <<pending, in_order, nsent, poll_delivered, enq_during>>

SendLoad(self) == send_msg_load(self) /\ ObserveSend(self)
SendStore(self) == send_msg_store(self) /\ UNCHANGED logs
SendWakeUp(self) == wake_up(self) /\ ObserveSend(self)

HasMessages(self) ==
  /\ \/ has_messages(self, "hm1", AfterCheck(TRUE), AfterCheck(FALSE))
     \/ has_messages(self, "hm2", AfterRecheck(TRUE), AfterRecheck(FALSE))
  /\ sent_in_window' = [sent_in_window EXCEPT ![self] = @ /\ pc'[self] = "hm2"]
  /\ UNCHANGED <<pending, in_order, nsent, poll_delivered, enq_during, wakes>>

\* on_message(m) is observed in the step that invokes it; a call that returns
\* ends the observation of that call.
PollFront(self) ==
  /\ poll_messages_front(self)
  /\ IF pc'[self] = "poll_pop"
       THEN LET p == other'[self]
                m == front(msg_queues[self][p])
            IN /\ in_order' = (in_order /\ pending[self][p] # <<>> /\ Head(pending[self][p]) = m)
               /\ pending' = [pending EXCEPT ![self][p] = IF @ = <<>> THEN @ ELSE Tail(@)]
               /\ poll_delivered' = [poll_delivered EXCEPT ![self] = TRUE]
               /\ UNCHANGED enq_during
       ELSE IF pc'[self] # "poll"
         THEN /\ poll_delivered' = [poll_delivered EXCEPT ![self] = FALSE]
              /\ enq_during' = [enq_during EXCEPT ![self] = FALSE]
              /\ UNCHANGED <<pending, in_order>>
         ELSE UNCHANGED <<pending, in_order, poll_delivered, enq_during>>
  /\ UNCHANGED <<nsent, wakes, sent_in_window>>

PollPop(self) == poll_messages_pop(self) /\ UNCHANGED logs

RunSetSleeping(self) ==
  /\ run_set_sleeping(self)
  /\ wakes' = [wakes EXCEPT ![self] = 0]
  /\ UNCHANGED <<pending, in_order, nsent, poll_delivered, enq_during, sent_in_window>>
RunUnsetSleeping(self) == run_unset_sleeping(self) /\ UNCHANGED logs
WaitInterrupted(self) == wait_interrupted(self) /\ UNCHANGED logs
WaitReady(self) == wait_ready(self) /\ UNCHANGED logs
RunClearSleeping(self) == run_clear_sleeping(self) /\ UNCHANGED logs
RunLoop(self) == run_loop(self) /\ UNCHANGED logs

Next ==
  /\ UNCHANGED config
  /\ UNCHANGED sockets
  /\ UNCHANGED factory
  /\ \E self \in Workers :
       \/ SendCall(self)
       \/ SendCheck(self)
       \/ SendEmplace(self)
       \/ SendLoad(self)
       \/ SendStore(self)
       \/ SendWakeUp(self)
       \/ HasMessages(self)
       \/ PollFront(self)
       \/ PollPop(self)
       \/ RunSetSleeping(self)
       \/ RunUnsetSleeping(self)
       \/ WaitInterrupted(self)
       \/ WaitReady(self)
       \/ RunClearSleeping(self)
       \/ RunLoop(self)

Spec == Init /\ [][Next]_vars

\* The same runs, with the observers of the sleep cycles recording.
WatchInit ==
  /\ Constructed
  /\ NoSockets
  /\ factory = NoFactory
  /\ \/ nr_threads = 2 /\ sends = PairSends
     \/ nr_threads = MaxThreads /\ sends = FullSends
  /\ flooder = MaxThreads
  /\ flood_to = MaxThreads
  /\ watch = TRUE

WatchSpec == WatchInit /\ [][Next]_vars

-----------------------------------------------------------------------------
(* Fair scheduling.  Every worker is a running OS thread, so a worker that *)
(* can take a step of its own eventually takes one; the kernel delivers a  *)
(* sent signal to a thread that is inside wait() (WaitInterrupted).  That  *)
(* a descriptor becomes ready (WaitReady) is up to the peers on the        *)
(* network and is not assumed.                                             *)

WorkerStep(self) ==
  /\ self \in Workers
  /\ UNCHANGED config
  /\ UNCHANGED sockets
  /\ UNCHANGED factory
  /\ \/ SendCall(self)
     \/ SendCheck(self)
     \/ SendEmplace(self)
     \/ SendLoad(self)
     \/ SendStore(self)
     \/ SendWakeUp(self)
     \/ HasMessages(self)
     \/ PollFront(self)
     \/ PollPop(self)
     \/ RunSetSleeping(self)
     \/ RunUnsetSleeping(self)
     \/ WaitInterrupted(self)
     \/ RunClearSleeping(self)
     \/ RunLoop(self)

Fairness == \A i \in Slots : WF_vars(WorkerStep(i))

\* All workers; the callbacks of worker 0 send to the last worker whenever they
\* run, and the callbacks of the others make FloodSends calls in all.
FloodInit ==
  /\ Constructed
  /\ NoSockets
  /\ factory = NoFactory
  /\ nr_threads = MaxThreads
  /\ sends = FloodSends
  /\ flooder = 0
  /\ flood_to = MaxThreads - 1
  /\ watch = FALSE

FloodSpec == FloodInit /\ [][Next]_vars /\ Fairness

-----------------------------------------------------------------------------
(* Construction (reactor.cpp:279-300): every worker thread constructs its  *)
(* own Reactor and then enters run(), while its peers may already be       *)
(* running and sending to it.                                              *)

\* The constructor's store going to slot 0 instead of slot _thread_id.
Reactor_store_slot0(self) ==
  /\ pc[self] = "ctor"
  /\ thread_is_sleeping' = [thread_is_sleeping EXCEPT ![0] = FALSE]
  /\ pc' = [pc EXCEPT ![self] = "ctor_publish"]
  /\ UNCHANGED <<pthread_ids, msg_queues, sigpending, other, remote, msg, has_msgs, ret>>

\* `_thread_is_sleeping[_thread_id].store(false, std::memory_order_seq_cst);`
Reactor_store(self) ==
  /\ pc[self] = "ctor"
  /\ thread_is_sleeping' = [thread_is_sleeping EXCEPT ![self] = FALSE]
  /\ pc' = [pc EXCEPT ![self] = "ctor_publish"]
  /\ UNCHANGED <<pthread_ids, msg_queues, sigpending, other, remote, msg, has_msgs, ret>>

\* The constructor returning without the assignment to _pthread_ids.
Reactor_publish_missing(self) ==
  /\ pc[self] = "ctor_publish"
  /\ pc' = [pc EXCEPT ![self] = "poll"]
  /\ UNCHANGED <<pthread_ids, msg_queues, thread_is_sleeping, sigpending, other, remote, msg,
                 has_msgs, ret>>

\* `_pthread_ids[_thread_id] = pthread_self();`, and the worker enters run().
Reactor_publish(self) ==
  /\ pc[self] = "ctor_publish"
  /\ pthread_ids' = [pthread_ids EXCEPT ![self] = pthread_self(self)]
  /\ pc' = [pc EXCEPT ![self] = "poll"]
  /\ UNCHANGED <<msg_queues, thread_is_sleeping, sigpending, other, remote, msg, has_msgs, ret>>

ConstructStore(self) == Reactor_store(self) /\ UNCHANGED logs
ConstructPublish(self) == Reactor_publish(self) /\ UNCHANGED logs

StartNext ==
  /\ UNCHANGED <<nr_threads, sends, flooder, flood_to, watch>>
  /\ UNCHANGED sockets
  /\ UNCHANGED factory
  /\ \E self \in Workers :
       \/ ConstructStore(self)
       \/ ConstructPublish(self)
       \/ /\ UNCHANGED pthread_ids
          /\ \/ SendCall(self)
             \/ SendCheck(self)
             \/ SendEmplace(self)
             \/ SendLoad(self)
             \/ SendStore(self)
             \/ SendWakeUp(self)
             \/ HasMessages(self)
             \/ PollFront(self)
             \/ PollPop(self)
             \/ RunSetSleeping(self)
             \/ RunUnsetSleeping(self)
             \/ WaitInterrupted(self)
             \/ WaitReady(self)
             \/ RunClearSleeping(self)
             \/ RunLoop(self)

\* The static tables as the loader zero-initialises them (reactor.cpp:264-266),
\* before any worker has constructed its Reactor.
StartInit ==
  /\ msg_queues = [r \in Slots |-> [s \in Slots |-> <<>>]]
  /\ thread_is_sleeping = [i \in Slots |-> FALSE]
  /\ pthread_ids = [i \in Slots |-> NoThread]
  /\ sigpending = [i \in Slots |-> FALSE]
  /\ pc = [i \in Slots |-> "ctor"]
  /\ other = [i \in Slots |-> 0]
  /\ remote = [i \in Slots |-> i]
  /\ msg = [i \in Slots |-> NoMsg]
  /\ has_msgs = [i \in Slots |-> FALSE]
  /\ ret = [i \in Slots |-> NoRet]
  /\ pending = [r \in Slots |-> [s \in Slots |-> <<>>]]
  /\ in_order = TRUE
  /\ nsent = 0
  /\ poll_delivered = [i \in Slots |-> FALSE]
  /\ enq_during = [i \in Slots |-> FALSE]
  /\ wakes = [i \in Slots |-> 0]
  /\ sent_in_window = [i \in Slots |-> FALSE]
  /\ NoSockets
  /\ factory = NoFactory
  /\ \/ nr_threads = 2 /\ sends = PairSends
     \/ nr_threads = MaxThreads /\ sends = FullSends
  /\ flooder = MaxThreads
  /\ flood_to = MaxThreads
  /\ watch = FALSE

StartSpec == StartInit /\ [][StartNext]_vars

-----------------------------------------------------------------------------
(* The socket handles (reactor.cpp:43-262) of one worker.  A handle is     *)
(* held through shared references (std::shared_ptr, std::unique_ptr for a  *)
(* listener); the destructors run when the last one is dropped.            *)

Kinds == {"TcpListener", "TcpSocket", "UdpSocket"}
Errnos == {"ECONNRESET", "EPIPE", "EAGAIN"}
Bytes == 0 .. 1

\* Socket::~Socket: `::close(_sockfd);`
Socket_dtor(s) == [s EXCEPT !.closes = @ + 1]

\* TcpListener::~TcpListener: `::close(_sockfd);` on the listener's own member.
TcpListener_dtor(s) == [s EXCEPT !.closes = @ + 1]

\* ~TcpSocket that closes the descriptor itself, as ~TcpListener does.
TcpSocket_dtor_closes(s) == [s EXCEPT !.closes = @ + 1]

\* TcpSocket::~TcpSocket: empty body.
TcpSocket_dtor(s) == s

\* UdpSocket::~UdpSocket: empty body.
UdpSocket_dtor(s) == s

\* Destruction of the object: the destructor of the class, then that of its
\* base Socket (TcpSocket and UdpSocket are constructed on `Socket{sockfd}`;
\* TcpListener initialises its own `_sockfd`).
Destroy(s) ==
  CASE s.kind = "TcpSocket" -> Socket_dtor(TcpSocket_dtor(s))
    [] s.kind = "UdpSocket" -> Socket_dtor(UdpSocket_dtor(s))
    [] s.kind = "TcpListener" -> TcpListener_dtor(s)

\* A factory or an accept callback creates the object and holds the first
\* reference: make_unique<TcpListener>, make_shared<UdpSocket>, a TcpSocket
\* wrapped around an accepted descriptor.
make_socket(h, k) ==
  /\ handles[h].kind = "none"
  /\ handles' = [handles EXCEPT ![h] = [kind |-> k, refs |-> 1, closes |-> 0]]
  /\ UNCHANGED <<errno, last>>

\* A holder copies a reference it holds (the registration table, a callback).
AcquireReference(h) ==
  /\ handles[h].refs > 0
  /\ handles[h].refs < MaxRefs
  /\ handles' = [handles EXCEPT ![h].refs = @ + 1]
  /\ UNCHANGED <<errno, last>>

\* A holder drops its reference; the last drop destroys the object.
DropReference(h) ==
  /\ handles[h].refs > 0
  /\ handles' = [handles EXCEPT ![h] =
                   IF @.refs = 1 THEN Destroy([@ EXCEPT !.refs = 0])
                                 ELSE [@ EXCEPT !.refs = @ - 1]]
  /\ UNCHANGED <<errno, last>>

\* `std::string_view{rx_buf.data(), size_type(nr)}`: the first nr bytes of the buffer.
string_view(buf, nr) == [i \in 1 .. nr |-> buf[i]]

\* `_recv_fn(this->shared_from_this(), payload)`: the callback is given a
\* shared reference for the call and may keep a copy of it (keep).
recv_fn(h, payload, keep, call) ==
  /\ last' = [call EXCEPT !.recv_fn = Append(@, payload), !.kept = keep]
  /\ handles' = [handles EXCEPT ![h].refs = IF keep THEN @ + 1 ELSE @]

\* on_read_event that tests errno without testing that recv failed.
on_read_event_stale_errno(h, nr, e, buf, keep) ==
  /\ handles[h].kind = "TcpSocket"
  /\ handles[h].refs > 0
  /\ keep => handles[h].refs < MaxRefs
  /\ LET err == IF nr < 0 THEN e ELSE errno
         call == [NoCall EXCEPT !.h = h, !.nr = nr, !.errno = err, !.rx_buf = buf]
     IN /\ errno' = err
        /\ IF err = "ECONNRESET"
             THEN recv_fn(h, <<>>, keep, call)
             ELSE IF nr < 0
               THEN /\ last' = [call EXCEPT !.raised = Ret("system_error", "recv")]
                    /\ UNCHANGED handles
               ELSE recv_fn(h, string_view(buf, nr), keep, call)

\* TcpSocket::on_read_event (reactor.cpp:169-184).  recv returned nr, with
\* errno set to e when it failed (errno keeps its value when it did not), and
\* left buf in rx_buf.
on_read_event(h, nr, e, buf, keep) ==
  /\ handles[h].kind = "TcpSocket"
  /\ handles[h].refs > 0
  /\ keep => handles[h].refs < MaxRefs
  /\ LET err == IF nr < 0 THEN e ELSE errno
         call == [NoCall EXCEPT !.h = h, !.nr = nr, !.errno = err, !.rx_buf = buf]
     IN /\ errno' = err
        /\ IF nr < 0 /\ err = "ECONNRESET"
             THEN \* `_recv_fn(shared_from_this(), std::string_view{}); return;`
                  recv_fn(h, <<>>, keep, call)
             ELSE IF nr < 0
               THEN \* `throw std::system_error(errno, std::system_category(), "recv");`
                    /\ last' = [call EXCEPT !.raised = Ret("system_error", "recv")]
                    /\ UNCHANGED handles
               ELSE recv_fn(h, string_view(buf, nr), keep, call)

\* The error policy of both send functions, on what the write returned:
\* `if ((nr < 0) && (errno == ECONNRESET || errno == EPIPE)) return;`
\* `if (nr < 0) throw std::system_error(errno, std::system_category(), "send");`
\* `if (size_t(nr) != len) throw std::runtime_error("partial send");`
send_outcome(len, nr, err) ==
  IF nr < 0 /\ err \in {"ECONNRESET", "EPIPE"} THEN NoRet
  ELSE IF nr < 0 THEN Ret("system_error", "send")
  ELSE IF nr # len THEN Ret("runtime_error", "partial send")
  ELSE NoRet

\* TcpSocket::send that swallows ECONNRESET only.
TcpSocket_send_epipe_raised(h, len, nr, e) ==
  /\ handles[h].kind = "TcpSocket"
  /\ handles[h].refs > 0
  /\ LET err == IF nr < 0 THEN e ELSE errno IN
       /\ errno' = err
       /\ sent' = [h |-> h, kind |-> "TcpSocket", len |-> len, nr |-> nr, errno |-> err,
                   raised |-> IF nr < 0 /\ err = "EPIPE"
                                THEN Ret("system_error", "send")
                                ELSE send_outcome(len, nr, err)]
  /\ UNCHANGED handles

\* TcpSocket::send (reactor.cpp:154-167): `::send(_sockfd, msg, len, ...)`
\* returned nr, with errno set to e when it failed.
TcpSocket_send(h, len, nr, e) ==
  /\ handles[h].kind = "TcpSocket"
  /\ handles[h].refs > 0
  /\ LET err == IF nr < 0 THEN e ELSE errno IN
       /\ errno' = err
       /\ sent' = [h |-> h, kind |-> "TcpSocket", len |-> len, nr |-> nr, errno |-> err,
                   raised |-> send_outcome(len, nr, err)]
  /\ UNCHANGED handles

\* UdpSocket::send (reactor.cpp:196-214): `::sendto(_sockfd, msg, len, ..., dst)`
\* with the provided destination returned nr, with errno set to e when it failed.
UdpSocket_send(h, len, nr, e) ==
  /\ handles[h].kind = "UdpSocket"
  /\ handles[h].refs > 0
  /\ LET err == IF nr < 0 THEN e ELSE errno IN
       /\ errno' = err
       /\ sent' = [h |-> h, kind |-> "UdpSocket", len |-> len, nr |-> nr, errno |-> err,
                   raised |-> send_outcome(len, nr, err)]
  /\ UNCHANGED handles

\* The record of the last call is that of the call made last, of either kind.
MakeSocket == (\E h \in Handles : \E k \in Kinds : make_socket(h, k)) /\ UNCHANGED sent
Acquire == (\E h \in Handles : AcquireReference(h)) /\ UNCHANGED sent
Drop == (\E h \in Handles : DropReference(h)) /\ UNCHANGED sent
OnReadEvent ==
  /\ \E h \in Handles : \E nr \in -1 .. RxBufSize : \E e \in Errnos :
       \E buf \in [1 .. RxBufSize -> Bytes] : \E keep \in BOOLEAN :
         on_read_event(h, nr, e, buf, keep)
  /\ sent' = NoSend
Send ==
  /\ \E h \in Handles : \E len \in 0 .. MaxSendLen : \E nr \in -1 .. len : \E e \in Errnos :
       \/ TcpSocket_send(h, len, nr, e)
       \/ UdpSocket_send(h, len, nr, e)
  /\ last' = NoCall

SockNext ==
  /\ UNCHANGED reactors
  /\ UNCHANGED factory
  /\ \/ MakeSocket
     \/ Acquire
     \/ Drop
     \/ OnReadEvent
     \/ Send

\* One worker's handles; the mailbox fabric stays as constructed.
SockInit ==
  /\ Constructed
  /\ NoSockets
  /\ factory = NoFactory
  /\ nr_threads = 2
  /\ sends = PairSends
  /\ flooder = MaxThreads
  /\ flood_to = MaxThreads
  /\ watch = FALSE

SockSpec == SockInit /\ [][SockNext]_vars

-----------------------------------------------------------------------------
(* The factories make_tcp_listener (reactor.cpp:109-133) and               *)
(* make_udp_socket (reactor.cpp:242-262): one call, a system call a step.  *)
(* The kernel decides which calls fail.                                    *)

\* socket(2) returns the lowest descriptor that is not open (0-2 are taken).
LowestFd(open) == CHOOSE f \in 3 .. (3 + Cardinality(open)) :
                    f \notin open /\ \A g \in 3 .. (f - 1) : g \in open

\* `continue`: the candidate failed at `step`; go on with `rp = rp->ai_next`.
next_candidate(f, step, open) ==
  [f EXCEPT !.tried = Append(@, step), !.rp = @ + 1, !.pc = "socket",
            !.sockfd = -1, !.open_fds = open]

\* `return std::make_unique<TcpListener>(sockfd, ...)` / `make_shared<UdpSocket>`.
return_socket(f) ==
  [f EXCEPT !.tried = Append(@, "ok"), !.pc = "done", !.result = Ret(f.kind, f.sockfd)]

\* lookup_addresses (reactor.cpp:91-107): getaddrinfo resolves n candidates
\* or fails, and then runtime_error(gai_strerror(err)) is raised.
lookup_addresses(n) ==
  /\ factory.pc = "lookup"
  /\ factory' = IF n = 0
                  THEN [factory EXCEPT !.pc = "done", !.result = Ret("runtime_error", "getaddrinfo")]
                  ELSE [factory EXCEPT !.pc = "socket", !.n = n, !.rp = 1]

\* `int sockfd = ::socket(...); if (sockfd < 0) continue;` then setsockopt.
try_socket(ok) ==
  /\ factory.pc = "socket"
  /\ factory.rp <= factory.n
  /\ factory' = IF ok
                  THEN LET fd == LowestFd(factory.open_fds) IN
                       [factory EXCEPT !.sockfd = fd, !.open_fds = @ \cup {fd}, !.pc = "bind"]
                  ELSE next_candidate(factory, "socket", factory.open_fds)

\* try_bind that goes on with the next candidate without closing.
try_bind_leaks(ok) ==
  /\ factory.pc = "bind"
  /\ factory' = IF ~ok
                  THEN next_candidate(factory, "bind", factory.open_fds)
                  ELSE IF factory.kind = "TcpListener"
                    THEN [factory EXCEPT !.pc = "listen"]
                    ELSE return_socket(factory)

\* `if (::bind(sockfd, ...) < 0) { ::close(sockfd); continue; }`; make_udp_socket
\* returns the socket after a successful bind.
try_bind(ok) ==
  /\ factory.pc = "bind"
  /\ factory' = IF ~ok
                  THEN next_candidate(factory, "bind", factory.open_fds \ {factory.sockfd})
                  ELSE IF factory.kind = "TcpListener"
                    THEN [factory EXCEPT !.pc = "listen"]
                    ELSE return_socket(factory)

\* `if (::listen(sockfd, backlog) < 0) { ::close(sockfd); continue; }`, else return.
try_listen(ok) ==
  /\ factory.pc = "listen"
  /\ factory' = IF ~ok
                  THEN next_candidate(factory, "listen", factory.open_fds \ {factory.sockfd})
                  ELSE return_socket(factory)

\* The loop is over: `freeaddrinfo(addresses); throw std::runtime_error("Failed to listen ...")`.
no_candidate ==
  /\ factory.pc = "socket"
  /\ factory.rp > factory.n
  /\ factory' = [factory EXCEPT !.pc = "done",
                                !.result = Ret("runtime_error", "Failed to listen to interface")]

Lookup == \E n \in 0 .. MaxCandidates : lookup_addresses(n)
TrySocket == \E ok \in BOOLEAN : try_socket(ok)
TryBind == \E ok \in BOOLEAN : try_bind(ok)
TryListen == \E ok \in BOOLEAN : try_listen(ok)
NoCandidate == no_candidate

FactoryNext ==
  /\ UNCHANGED reactors
  /\ UNCHANGED sockets
  /\ \/ Lookup
     \/ TrySocket
     \/ TryBind
     \/ TryListen
     \/ NoCandidate

\* make_tcp_listener or make_udp_socket is called.
FactoryInit ==
  /\ Constructed
  /\ NoSockets
  /\ nr_threads = 2
  /\ sends = PairSends
  /\ flooder = MaxThreads
  /\ flood_to = MaxThreads
  /\ watch = FALSE
  /\ \E k \in {"TcpListener", "UdpSocket"} :
       factory = [NoFactory EXCEPT !.kind = k, !.pc = "lookup"]

FactorySpec == FactoryInit /\ [][FactoryNext]_vars

-----------------------------------------------------------------------------
(* Properties of the mailbox fabric.                                       *)

Shared == <<msg_queues, thread_is_sleeping, sigpending>>

\* The cell send_msg of worker i is working on.
TargetCell(i) == msg_queues[remote[i]][i]
\* Worker i takes the step of send_msg that tries to enqueue.
EmplaceStep(i) == pc[i] = "send_emplace" /\ pc'[i] # "send_emplace"
\* Worker i takes a step of has_messages.
HasMessagesStep(i) == pc[i] \in {"hm1", "hm2"} /\ (pc'[i] # pc[i] \/ other'[i] # other[i])
\* Worker i takes the step in which poll_messages returns.
PollReturnStep(i) == pc[i] = "poll" /\ pc'[i] \notin {"poll", "poll_pop"}

\* C1: for every consumer c and producer p # c, every pointer c's on_message
\* received from p was the oldest pointer p had enqueued for c and c had not yet
\* received (same order, nothing twice), and the pointers enqueued and not yet
\* received are exactly the contents of cell [c][p], less the one on_message
\* is being given (nothing dropped; all received once the cell is drained).
C1_FifoExactlyOnce ==
  /\ in_order
  /\ \A c \in Workers : \A p \in Workers \ {c} :
       pending[c][p] = IF pc[c] = "poll_pop" /\ other[c] = p
                         THEN Tail(msg_queues[c][p])
                         ELSE msg_queues[c][p]

\* A consumer is given the first of two pointers that wait in one cell.
C1_Witness ==
  \E c \in Workers : \E p \in Workers \ {c} :
    /\ pc[c] = "poll_pop" /\ other[c] = p
    /\ Len(msg_queues[c][p]) = 2
    /\ Len(pending[c][p]) = 1

\* C3: send_msg with remote_id equal to the caller's own id raises
\* InvalidArgument and the call is over, and that step changes no mailbox cell,
\* no sleep-flag and no pending signal.
C3_SelfSendRejected ==
  [][\A i \in Slots :
       (pc[i] = "send_msg" /\ pc'[i] # "send_msg" /\ remote[i] = i)
         => /\ ret'[i] = Ret("send_msg", "InvalidArgument")
            /\ pc'[i] = AfterSend
            /\ UNCHANGED Shared]_vars

\* A send_msg to the own id has raised.
C3_Witness == \E i \in Workers : ret[i] = Ret("send_msg", "InvalidArgument")

\* C4: a step of has_messages changes no mailbox cell, no sleep-flag and no
\* pending signal; has_messages returns true in the step that inspects a
\* non-empty peer cell and in no other, returns false in the step that finds
\* the last peer cell empty and in no other, and else goes on to the next index.
C4_HasMessagesObserves ==
  [][\A i \in Slots :
       HasMessagesStep(i) =>
         LET k == SkipSelf(i, other[i])
             found == k < nr_threads /\ msg_queues[i][k] # <<>>
             atEnd == \A j \in Workers : j > k => j = i
         IN /\ UNCHANGED Shared
            /\ k # i /\ k < nr_threads
            /\ (ret'[i] = Ret("has_messages", "true")) <=> found
            /\ (ret'[i] = Ret("has_messages", "false")) <=> (~found /\ atEnd)
            /\ (~found /\ ~atEnd) => (other'[i] = k + 1 /\ pc'[i] = pc[i])]_vars

\* The re-check of has_messages returned true with a message still in the column.
C4_Witness ==
  \E i \in Workers :
    /\ ret[i] = Ret("has_messages", "true")
    /\ pc[i] = "unset_sleep"
    /\ \E p \in Workers \ {i} : msg_queues[i][p] # <<>>

\* C5: no cell ever holds more than MsgQueueSize pointers; send_msg enqueues
\* its pointer and goes on to return true when the cell holds fewer than
\* MsgQueueSize pointers, and returns false when it holds MsgQueueSize (so K
\* sends into an empty, undrained cell succeed, the next one fails, and a
\* send after a dequeue succeeds again).
C5_CellBounded ==
  [][/\ \A c, p \in Slots : Len(msg_queues'[c][p]) <= MsgQueueSize
     /\ \A i \in Slots :
          /\ EmplaceStep(i) =>
               IF Len(TargetCell(i)) < MsgQueueSize
                 THEN /\ msg_queues'[remote[i]][i] = Append(TargetCell(i), msg[i])
                      /\ pc'[i] = "send_load"
                 ELSE ret'[i] = Ret("send_msg", "false")
          /\ (pc[i] \in {"send_load", "send_kill"} /\ pc'[i] = AfterSend)
               => ret'[i] = Ret("send_msg", "true")]_vars

\* A send_msg into a cell that holds MsgQueueSize pointers has returned false.
C5_Witness ==
  \E i \in Workers : \E c \in Workers \ {i} :
    /\ ret[i] = Ret("send_msg", "false")
    /\ Len(msg_queues[c][i]) = MsgQueueSize

\* C6: the step of send_msg that finds cell [remote_id][self] full returns
\* false and ends the call, and changes no cell, no sleep-flag and no pending
\* signal; and send_msg returns false in no other step.
C6_FullReturnsFalse ==
  [][\A i \in Slots :
       /\ (EmplaceStep(i) /\ QueueFull(TargetCell(i)))
            => /\ ret'[i] = Ret("send_msg", "false")
               /\ pc'[i] = AfterSend
               /\ UNCHANGED Shared
       /\ (EmplaceStep(i) /\ ~QueueFull(TargetCell(i)))
            => /\ UNCHANGED <<thread_is_sleeping, sigpending>>
               /\ ret'[i] = NoRet
       /\ (ret'[i] = Ret("send_msg", "false") /\ pc[i] # AfterSend)
            => (pc[i] = "send_emplace" /\ QueueFull(TargetCell(i)))]_vars

\* A send_msg returned false while the recipient's sleep-flag is true.
C6_Witness ==
  \E i \in Workers : \E c \in Workers \ {i} :
    /\ ret[i] = Ret("send_msg", "false")
    /\ QueueFull(msg_queues[c][i])
    /\ thread_is_sleeping[c]

\* C8: poll_messages returns true iff it invoked on_message during the call;
\* every pop takes out of the cell the one pointer on_message was just given;
\* and when no peer enqueued to the caller during the call, every peer cell of
\* the caller's column is empty when the call returns.
C8_PollDrains ==
  [][\A i \in Slots :
       /\ PollReturnStep(i)
            => /\ ret'[i] = Ret("poll_messages", Bool(poll_delivered[i]))
               /\ ~enq_during[i] => \A p \in Workers \ {i} : msg_queues[i][p] = <<>>
       /\ (pc[i] = "poll_pop" /\ pc'[i] # "poll_pop")
            => /\ msg_queues[i][other[i]] # <<>>
               /\ msg_queues' = [msg_queues EXCEPT ![i][other[i]] = Tail(@)]]_vars

\* poll_messages delivered, returned true and left the column empty.
C8_Witness ==
  \E i \in Workers :
    /\ ret[i] = Ret("poll_messages", "true")
    /\ \A p \in Workers \ {i} : msg_queues[i][p] = <<>>

-----------------------------------------------------------------------------
(* Properties of the socket handles.                                       *)

\* C9: for every handle of any variant, its descriptor is not closed while a
\* reference is held, and is closed exactly once when none is held any more.
C9_ClosedExactlyOnce ==
  \A h \in Handles :
    handles[h].kind # "none" =>
      /\ handles[h].refs > 0 => handles[h].closes = 0
      /\ handles[h].refs = 0 => handles[h].closes = 1

\* A TcpSocket whose receive callback kept a reference has lost its last reference.
C9_Witness ==
  \E h \in Handles :
    /\ handles[h].kind = "TcpSocket"
    /\ handles[h].refs = 0
    /\ last.h = h /\ last.kept

\* C10: after a call of on_read_event: if recv failed with ECONNRESET or
\* returned 0, the receive callback was invoked exactly once, with an empty
\* payload, and nothing was raised; if recv failed with another error,
\* system_error("recv") was raised and the callback was not invoked; otherwise
\* the callback was invoked exactly once with the nr bytes recv left in the
\* buffer and nothing was raised.
C10_OnReadEvent ==
  last.h # 0 =>
    LET failed == last.nr < 0
        reset == failed /\ last.errno = "ECONNRESET"
    IN /\ (reset \/ last.nr = 0)
            => (last.recv_fn = << <<>> >> /\ last.raised = NoRet)
       /\ (failed /\ ~reset)
            => (last.recv_fn = <<>> /\ last.raised = Ret("system_error", "recv"))
       /\ last.nr > 0
            => /\ last.recv_fn = <<SubSeq(last.rx_buf, 1, last.nr)>>
               /\ last.raised = NoRet

\* The factory has returned a socket.
Returned == factory.pc = "done" /\ factory.result = Ret(factory.kind, factory.sockfd)
\* The factory has raised its failure for the interface.
BindFailed == factory.pc = "done"
                /\ factory.result = Ret("runtime_error", "Failed to listen to interface")
\* The steps a candidate of this factory can fail at.
FailSteps == IF factory.kind = "TcpListener" THEN {"socket", "bind", "listen"}
                                             ELSE {"socket", "bind"}

\* C12: the candidates are tried in order; whenever the factory turns to a
\* candidate no descriptor it created is open; it returns at the first
\* candidate whose socket, bind (and listen, for the listener) all succeeded,
\* every earlier one having failed, and then the only open descriptor is the
\* returned socket's; it raises its failure iff every candidate failed, and
\* then no descriptor is open.
C12_FirstSuccessNoLeak ==
  factory.n > 0 =>
    /\ factory.pc = "socket" => (factory.open_fds = {} /\ factory.rp = Len(factory.tried) + 1)
    /\ factory.pc \in {"bind", "listen"} => factory.open_fds = {factory.sockfd}
    /\ \A i \in 1 .. Len(factory.tried) :
         IF i = Len(factory.tried) /\ Returned
           THEN factory.tried[i] = "ok"
           ELSE factory.tried[i] \in FailSteps
    /\ factory.pc = "done" =>
         \/ /\ Returned
            /\ factory.open_fds = {factory.sockfd}
            /\ Len(factory.tried) = factory.rp
         \/ /\ BindFailed
            /\ factory.open_fds = {}
            /\ Len(factory.tried) = factory.n

\* make_tcp_listener returned the third candidate after a failed listen and a failed bind.
C12_Witness ==
  /\ Returned
  /\ factory.kind = "TcpListener"
  /\ factory.tried = <<"listen", "bind", "ok">>

\* C11: after a call of TcpSocket::send or UdpSocket::send the call has
\* returned normally iff the write transferred all len bytes or failed with
\* ECONNRESET or EPIPE; after a write that failed with another error
\* system_error("send") was raised; after a write of fewer than len bytes
\* runtime_error("partial send") was raised.
C11_SendPolicy ==
  sent.h # 0 =>
    LET failed == sent.nr < 0
        gone == failed /\ sent.errno \in {"ECONNRESET", "EPIPE"}
    IN /\ (sent.raised = NoRet) <=> (sent.nr = sent.len \/ gone)
       /\ (failed /\ ~gone) => sent.raised = Ret("system_error", "send")
       /\ (~failed /\ sent.nr < sent.len) => sent.raised = Ret("runtime_error", "partial send")

\* A TcpSocket's write failed with EPIPE and the call returned normally.
C11_Witness ==
  /\ sent.kind = "TcpSocket"
  /\ sent.nr < 0
  /\ sent.errno = "EPIPE"
  /\ sent.raised = NoRet

\* recv failed with ECONNRESET and the callback got the empty payload.
C10_Witness ==
  /\ last.h # 0
  /\ last.nr < 0
  /\ last.errno = "ECONNRESET"
  /\ last.recv_fn = << <<>> >>

-----------------------------------------------------------------------------
(* Liveness of the sleep/wake handshake, under fair scheduling.            *)

\* Worker c is blocked in the backend's wait().
Blocked(c) == c \in Workers /\ pc[c] = "wait"
\* Some cell of c's recipient column holds a message.
HasMail(c) == \E p \in Workers \ {c} : msg_queues[c][p] # <<>>
\* A pointer p enqueued for c has not been given to c's on_message yet.
Undelivered(c, p) == c \in Workers /\ p \in Workers /\ c # p /\ pending[c][p] # <<>>
\* c's on_message is being given a pointer of cell [c][p].
Delivering(c, p) == pc[c] = "poll_pop" /\ other[c] = p
\* c's poll_messages is at a cell before cell [c][p].
PollingBefore(c, p) == InPoll(c) /\ other[c] < p

\* The recipient of the messages of the configurations with a flooder.
Recipient == MaxThreads - 1

\* C2 as claimed: no worker stays blocked in wait() while its column holds a
\* message, and every pointer enqueued for the recipient is eventually given to
\* its on_message.
C2_AllDelivered ==
  /\ \A c \in Slots : (Blocked(c) /\ HasMail(c)) ~> ~Blocked(c)
  /\ \A p \in Slots \ {Recipient} :
       Undelivered(Recipient, p) ~> Delivering(Recipient, p)

\* C2: no worker stays blocked in wait() while its column holds a message, and
\* every pointer enqueued for the recipient is eventually given to its
\* on_message unless its poll_messages stays for ever at the cells of lower
\* peer indices (a peer keeps refilling the cell that is being drained).
C2_NoLostWakeup ==
  /\ \A c \in Slots : (Blocked(c) /\ HasMail(c)) ~> ~Blocked(c)
  /\ \A p \in Slots \ {Recipient} :
       [](Undelivered(Recipient, p)
            => (<>Delivering(Recipient, p) \/ <>[]PollingBefore(Recipient, p)))

\* A worker is blocked in wait() and a message is in its column.
C2_Witness == \E c \in Workers : Blocked(c) /\ HasMail(c) /\ thread_is_sleeping[c]

\* C13 as claimed: between one store of true to a worker's sleep-flag by its
\* event loop and the next, at most one wake signal is sent to that worker.
C13_OneWakePerCycle == \A c \in Slots : wakes[c] <= 1

\* Worker c's re-check returns, a send_msg to c having completed in the window before it.
RecheckAfterSend(c) == pc[c] = "hm2" /\ pc'[c] # "hm2" /\ sent_in_window[c]

\* C14 as claimed (scenario S5): when a send_msg to worker c completes between
\* c's store of true to its sleep-flag and c's re-check, the re-check returns
\* true and c goes on to clear its flag instead of entering wait(), and that
\* send_msg sends no wake signal to c.
C14_NoSignalInWindow ==
  [][\A c \in Slots :
       /\ RecheckAfterSend(c)
            => (ret'[c] = Ret("has_messages", "true") /\ pc'[c] = "unset_sleep")
       /\ \A p \in Slots : CompletesInWindow(p, c) => pc[p] # "send_kill"]_vars

\* C14: when a send_msg to worker c completes between c's store of true to its
\* sleep-flag and c's re-check, the re-check returns true and c goes on to
\* clear its flag instead of entering wait(); and a wake signal has then been
\* sent to c in this sleep cycle (by the send_msg that found the flag true),
\* or a producer that has cleared the flag is about to send it.
C14_RecheckSeesMessage ==
  [][\A c \in Slots :
       /\ RecheckAfterSend(c)
            => (ret'[c] = Ret("has_messages", "true") /\ pc'[c] = "unset_sleep")
       /\ \A p \in Slots :
            CompletesInWindow(p, c)
              => /\ ~thread_is_sleeping'[c]
                 /\ \/ wakes'[c] >= 1
                    \/ \E q \in Slots : pc'[q] = "send_kill" /\ remote'[q] = c]_vars

\* The re-check returned true after a send_msg completed in the window and sent a signal.
C14_Witness ==
  \E c \in Workers :
    /\ nr_threads = 2
    /\ pc[c] = "unset_sleep"
    /\ ret[c] = Ret("has_messages", "true")
    /\ sigpending[c]
    /\ wakes[c] = 1

\* Worker i has stored true to its sleep-flag in step 3 and has not yet reached
\* the store that clears it: it is parked or about to be.
Parking(i) == pc[i] \in {"hm2", "unset_sleep", "wait"}
\* Worker i is at the clearing store of step 4, reached from wait() with the
\* flag not yet cleared by the worker, or from a poll_messages that delivered.
Clearing(i) == pc[i] = "clear"
\* A producer has cleared c's sleep-flag and has not yet sent its signal.
AboutToSignal(c) == \E q \in Workers : pc[q] = "send_kill" /\ remote[q] = c

\* C15 as claimed: the sleep-flag of a worker is true iff it is parked in the
\* blocking wait or about to be.
C15_FlagIffParking ==
  \A i \in Workers :
    /\ thread_is_sleeping[i] => (Parking(i) \/ Clearing(i))
    /\ Parking(i) => thread_is_sleeping[i]

\* C15: the sleep-flag of a worker is true only if it is parked in the blocking
\* wait or about to be; a worker that is about to park or is parked with its
\* flag false had it cleared by a send_msg, whose wake signal is pending or
\* about to be sent.
C15_FlagOnlyIfParking ==
  \A i \in Workers :
    /\ thread_is_sleeping[i] => (Parking(i) \/ Clearing(i))
    /\ (Parking(i) /\ ~thread_is_sleeping[i]) => (sigpending[i] \/ AboutToSignal(i))

\* A worker is parked in wait() and a send_msg has cleared its flag and sent the signal.
C15_Witness ==
  \E i \in Workers : pc[i] = "wait" /\ ~thread_is_sleeping[i] /\ sigpending[i]

\* The step writes slot i of the sleep-flag array or of the thread-identity array.
WritesSlot(i) ==
  \/ thread_is_sleeping'[i] # thread_is_sleeping[i]
  \/ pthread_ids'[i] # pthread_ids[i]
\* The step is a step of worker w.
StepOf(w) == pc'[w] # pc[w]
\* The step is the store of line 329 by a peer of i inside send_msg(i, _).
PeerClears(i) ==
  \E q \in Workers : /\ q # i /\ remote[q] = i
                     /\ pc[q] = "send_store" /\ StepOf(q)
                     /\ thread_is_sleeping[i] /\ ~thread_is_sleeping'[i]
                     /\ pthread_ids'[i] = pthread_ids[i]

\* C16 as claimed: slot i of the sleep-flag array and of the thread-identity
\* array is written only by worker i.
C16_SingleWriter == [][\A i \in Workers : WritesSlot(i) => StepOf(i)]_vars

\* C16: slot i of the thread-identity array is written only by worker i; slot i
\* of the sleep-flag array is written by worker i and, from true to false only,
\* by a peer at the store of its send_msg(i, _).
C16_OwnerOrPeerClear ==
  [][\A i \in Workers :
       /\ pthread_ids'[i] # pthread_ids[i] => StepOf(i)
       /\ WritesSlot(i) => (StepOf(i) \/ PeerClears(i))]_vars

\* Worker i has published its identity and a peer has cleared i's sleep-flag.
C16_Witness ==
  \E i \in Workers :
    /\ pthread_ids[i] = pthread_self(i)
    /\ Parking(i) /\ ~thread_is_sleeping[i] /\ AboutToSignal(i)

\* C19: a peer is at the pthread_kill of wake_up(i) only when worker i's
\* constructor has published i's thread identity, and the sleep-flag of i is
\* true only after that.
C19_SignalAfterPublish ==
  \A i \in Workers :
    /\ AboutToSignal(i) => pthread_ids[i] = pthread_self(i)
    /\ thread_is_sleeping[i] => pthread_ids[i] = pthread_self(i)
    /\ sigpending[i] => pthread_ids[i] = pthread_self(i)

\* A peer is about to signal worker i, and a peer has enqueued to a worker
\* whose Reactor is still under construction.
C19_Witness ==
  /\ \E i \in Workers : AboutToSignal(i)
  /\ \E j \in Workers : pc[j] \in {"ctor", "ctor_publish"}
                        /\ \E q \in Workers : msg_queues[j][q] # <<>>

\* The step takes worker c to position p of run().
Enters(c, p) == pc[c] # p /\ pc'[c] = p
\* The step is the return of v by fn, called by worker c.
Returns(c, fn, v) == ret'[c] = Ret(fn, v) /\ StepOf(c)

\* C17: a worker enters wait() only from a re-check that returned false, begins
\* the re-check only by storing true to its sleep-flag, stores it only after a
\* has_messages that returned false, and calls that only after a poll_messages
\* that delivered nothing and returned false; a poll_messages that delivered
\* returns true and skips to step 4; a re-check that returns true leads to the
\* clearing of the sleep-flag and back to step 1.
C17_GuardOnBlocking ==
  [][\A c \in Workers :
       /\ Enters(c, "wait") => (pc[c] = "hm2" /\ Returns(c, "has_messages", "false"))
       /\ Enters(c, "hm2") => (pc[c] = "set_sleep" /\ thread_is_sleeping'[c])
       /\ Enters(c, "set_sleep") => (pc[c] = "hm1" /\ Returns(c, "has_messages", "false"))
       /\ Enters(c, "hm1") => (/\ pc[c] = "poll" /\ ~poll_delivered[c]
                               /\ Returns(c, "poll_messages", "false"))
       /\ (pc[c] = "poll" /\ poll_delivered[c] /\ pc'[c] \notin {"poll", "poll_pop"})
            => (pc'[c] = "clear" /\ Returns(c, "poll_messages", "true"))
       /\ (pc[c] = "hm2" /\ Returns(c, "has_messages", "true")) => pc'[c] = "unset_sleep"
       /\ (pc[c] = "unset_sleep" /\ StepOf(c)) => (pc'[c] = "poll" /\ ~thread_is_sleeping'[c])
    ]_vars

\* A worker has just entered wait() from a re-check that returned false, after
\* messages were sent.
C17_Witness ==
  \E c \in Workers : pc[c] = "wait" /\ ret[c] = Ret("has_messages", "false") /\ nsent > 0

\* The step of worker s is the try_to_emplace of its send_msg(r, _).
Produces(s, r) == pc[s] = "send_emplace" /\ remote[s] = r /\ StepOf(s)
\* The step of worker r is the pop of its poll_messages on the cell of peer s.
Consumes(r, s) == pc[r] = "poll_pop" /\ other[r] = s /\ StepOf(r)

\* C18: cell [r][s] gets an element only by the try_to_emplace of worker s in
\* send_msg(r, _) and loses one only by the pop of worker r in poll_messages;
\* the cell a worker is enqueueing into or popping from is never on the
\* diagonal, and the diagonal cells stay empty.
C18_SPSC ==
  /\ [](\A i \in Workers :
          /\ msg_queues[i][i] = <<>>
          /\ pc[i] \in {"send_emplace", "send_load", "send_store", "send_kill"} => remote[i] # i
          /\ pc[i] = "poll_pop" => other[i] # i)
  /\ [][\A r, s \in Workers :
          /\ Len(msg_queues'[r][s]) > Len(msg_queues[r][s])
               => (Produces(s, r) /\ msg_queues'[r][s] = Append(msg_queues[r][s], msg[s]))
          /\ Len(msg_queues'[r][s]) < Len(msg_queues[r][s])
               => (Consumes(r, s) /\ msg_queues'[r][s] = Tail(msg_queues[r][s]))
          /\ Len(msg_queues'[r][s]) = Len(msg_queues[r][s])
               => msg_queues'[r][s] = msg_queues[r][s]]_vars

\* Worker s is at the try_to_emplace on cell [r][s] while worker r is at the pop
\* on the same cell.
C18_Witness ==
  \E r, s \in Workers :
    /\ pc[s] = "send_emplace" /\ remote[s] = r
    /\ pc[r] = "poll_pop" /\ other[r] = s

\* Producer q is inside send_msg(c, _) at one of the positions ps.
SendingAt(q, c, ps) == q \in Workers /\ q # c /\ remote[q] = c /\ pc[q] \in ps

\* The first half of C20: a worker blocked in wait() with its sleep-flag false
\* has a wake signal pending, or a producer that observed the flag true has
\* not yet issued its signal.
SignalOnItsWay(c) ==
  (Blocked(c) /\ ~thread_is_sleeping[c])
    => (sigpending[c] \/ \E q \in Workers : SendingAt(q, c, {"send_store", "send_kill"}))

\* C20 as claimed: the first half, and a worker blocked in wait() with its flag
\* true and a non-empty column has a producer between its enqueue and its load
\* of the flag.
C20_ProducerBeforeLoad ==
  \A c \in Workers :
    /\ SignalOnItsWay(c)
    /\ (Blocked(c) /\ thread_is_sleeping[c] /\ HasMail(c))
         => \E q \in Workers : SendingAt(q, c, {"send_load"})

\* C20: the first half, and a worker blocked in wait() with its flag true and a
\* non-empty column has a producer between its enqueue and its store of false
\* to the flag: before the load, or after a load that saw true.
C20_ProducerBeforeStore ==
  \A c \in Workers :
    /\ SignalOnItsWay(c)
    /\ (Blocked(c) /\ thread_is_sleeping[c] /\ HasMail(c))
         => \E q \in Workers : SendingAt(q, c, {"send_load", "send_store"})

\* A worker is blocked with its flag true and a message in its column, and the
\* only producer inside send_msg to it has already loaded the flag.
C20_Witness ==
  \E c \in Workers :
    /\ Blocked(c) /\ thread_is_sleeping[c] /\ HasMail(c)
    /\ \E q \in Workers : SendingAt(q, c, {"send_store"})
    /\ ~\E q \in Workers : SendingAt(q, c, {"send_load"})

\* Worker c is inside a call of has_messages.
InHasMessages(c) == c \in Workers /\ pc[c] \in {"hm1", "hm2"}
\* A peer has just enqueued a pointer for c.
Enqueued(c) == \E p \in Workers \ {c} : pc[p] = "send_load" /\ remote[p] = c

\* C7 as claimed: every call of has_messages, and every call of poll_messages
\* by the recipient, returns, whatever the peers do.
C7_CallsReturn ==
  /\ \A c \in Slots : InHasMessages(c) ~> ~InHasMessages(c)
  /\ InPoll(Recipient) ~> ~InPoll(Recipient)

\* C7: every call of has_messages returns, whatever the peers do; a call of
\* poll_messages by the recipient returns unless peers enqueue pointers for it
\* again and again for ever.
C7_ReturnUnlessFlooded ==
  /\ \A c \in Slots : InHasMessages(c) ~> ~InHasMessages(c)
  /\ [](InPoll(Recipient) => (<>~InPoll(Recipient) \/ []<>Enqueued(Recipient)))

\* poll_messages has delivered a pointer and a peer has enqueued another during the call.
C7_Witness == \E c \in Workers : InPoll(c) /\ poll_delivered[c] /\ enq_during[c]

=============================================================================
